---- MODULE Spec2Model ----
(***************************************************************************)
(* shuku: speech-segment derivation and subtitle re-timing                 *)
(* (src/shuku/cli.py).                                                     *)
(*                                                                         *)
(* Representation.  A cue time is an integer number of milliseconds, as in *)
(* pysubs2.  A time in seconds (a Python float) is represented by the      *)
(* integer number of thousandths of a second it denotes: 0.5 s is 500.     *)
(* Within the bounds below a delayed cue time is at most 8 ms and the       *)
(* padding at most 0.003 s; for these values the double arithmetic of the  *)
(* source (x / 1000 - padding, x / 1000 + padding, max, the comparisons    *)
(* and int(x * 1000)) gives the exact results, so integers stand for it.   *)
(* An interval (start, end) is the tuple <<start, end>>.                   *)
(***************************************************************************)
EXTENDS Integers, Sequences, FiniteSets, TLC

\* ------------------------------------------------------------------ bounds
\* Largest start or end of an interval handed to the Interval Merger.
MaxT == 3
\* Longest list handed to the Interval Merger.
MaxSegs == 3
\* Most cues in a subtitle file.
MaxCues == 2
\* Largest start or end of a cue as loaded, in milliseconds.
MaxCueT == 4
\* Most skip patterns configured.
MaxPatterns == 2
\* Most chapters matched for skipping.
MaxSkips == 2
\* Largest padding, in thousandths of a second.
MaxPadding == 1
\* Largest subtitle delay in either direction, in milliseconds.
MaxDelay == 1

VARIABLES
    pc,              \* position of the caller
    segments,        \* the caller's list passed to merge_overlapping_segments
    merged,          \* the list returned for segments
    remerged,        \* the list returned for merged
    shuffled,        \* a reordering of the caller's list
    mergedShuffled,  \* the list returned for shuffled
    subs,            \* subs.events: the cues, records [start, end, text]
    loaded,          \* the cues as pysubs2.load returned them (never changed)
    skip_patterns,   \* the compiled line_skip_patterns
    skip_intervals,  \* the (start, end) of the chapters to skip, in seconds
    padding,         \* config["padding"], in seconds
    delay,           \* args.sub_delay, in milliseconds
    speech_segments, \* the list extract_speech_timing_from_subtitles returned
    condensed_subs,  \* condensed_subs.events: the re-timed cues
    cumulative_duration, \* the counter of create_condensed_subtitles
    cumulative_history,  \* the values the counter has taken, oldest first
    enabled,         \* the outputs with config["condensed_<x>.enabled"] set
    steps,           \* the steps process_file has run, oldest first
    outputs,         \* the outputs process_file has created
    error,           \* the message of the exception raised, "" when none
    lrc_lines,       \* the lines convert_to_lrc has built, oldest first
    chapters,        \* context.stream_info["chapters"]
    skip_chapters,   \* context.config: whether it has "skip_chapters", its value
    line_skip_patterns, \* context.config["line_skip_patterns"], as written
    input_files,     \* the files get_input_files returned
    results,         \* what process_file did for each file attempted, in order
    successful_files, \* the counter of main
    exit_status,     \* the status the process ends with
    fs,              \* the file system: the content of every path that exists
    clock,           \* datetime.now(), in ticks of half a second
    if_file_exists,  \* context.config["if_file_exists"]
    user_input,      \* what the user typed at the last prompt
    returned,        \* what the last call of safe_move returned
    calls            \* the number of calls of safe_move so far

mergeVars == <<segments, merged, remerged, shuffled, mergedShuffled>>
filterVars == <<skip_patterns, skip_intervals>>
timingVars == <<padding, delay, speech_segments, condensed_subs,
                cumulative_duration, cumulative_history>>
processVars == <<enabled, steps, outputs, error>>
lrcVars == <<lrc_lines>>
chapterVars == <<chapters, skip_chapters>>
configVars == <<line_skip_patterns>>
mainVars == <<input_files, results, successful_files, exit_status>>
moveVars == <<fs, clock, if_file_exists, user_input, returned, calls>>
otherVars == <<lrcVars, chapterVars, configVars, mainVars, moveVars>>
vars == <<pc, mergeVars, subs, loaded, filterVars, otherVars, timingVars,
          processVars>>

\* ------------------------------------------------------------ small helpers
Max(a, b) == IF a >= b THEN a ELSE b
Min(a, b) == IF a <= b THEN a ELSE b

\* All sequences over S of length at most n.
SeqsUpTo(S, n) == UNION {[1..k -> S] : k \in 0..n}

\* The reorderings of a sequence s.
Reorderings(s) ==
    LET n == Len(s)
        Bij == {f \in [1..n -> 1..n] : \A i, j \in 1..n : i # j => f[i] # f[j]}
    IN {[i \in 1..n |-> s[f[i]]] : f \in Bij}

\* ------------------------------------------------- merge_overlapping_segments
\* list.sort(key=lambda x: x[0]): Python's sort is stable, so an element goes
\* behind every element whose start is not greater than its own.
RECURSIVE InsertByStart(_, _)
InsertByStart(sorted, x) ==
    IF sorted = <<>> THEN <<x>>
    ELSE IF Head(sorted)[1] <= x[1]
         THEN <<Head(sorted)>> \o InsertByStart(Tail(sorted), x)
         ELSE <<x>> \o sorted

RECURSIVE SortByStart(_)
SortByStart(s) ==
    IF s = <<>> THEN <<>>
    ELSE InsertByStart(SortByStart(SubSeq(s, 1, Len(s) - 1)), s[Len(s)])

\* The loop over segments[1:], with `merged` the list built so far.
RECURSIVE MergeLoop(_, _)
MergeLoop(acc, rest) ==
    IF rest = <<>> THEN acc
    ELSE LET current == Head(rest)
             previous == acc[Len(acc)]
         IN IF current[1] <= previous[2]
            THEN MergeLoop([acc EXCEPT ![Len(acc)] =
                                <<previous[1], Max(previous[2], current[2])>>],
                           Tail(rest))
            ELSE MergeLoop(Append(acc, current), Tail(rest))

\* A merge loop that keeps touching intervals apart (< in place of <=).
RECURSIVE MergeLoopStrict(_, _)
MergeLoopStrict(acc, rest) ==
    IF rest = <<>> THEN acc
    ELSE LET current == Head(rest)
             previous == acc[Len(acc)]
         IN IF current[1] < previous[2]
            THEN MergeLoopStrict([acc EXCEPT ![Len(acc)] =
                                <<previous[1], Max(previous[2], current[2])>>],
                           Tail(rest))
            ELSE MergeLoopStrict(Append(acc, current), Tail(rest))

\* A merge loop that takes the later end instead of the larger one.
RECURSIVE MergeLoopLastEnd(_, _)
MergeLoopLastEnd(acc, rest) ==
    IF rest = <<>> THEN acc
    ELSE LET current == Head(rest)
             previous == acc[Len(acc)]
         IN IF current[1] <= previous[2]
            THEN MergeLoopLastEnd([acc EXCEPT ![Len(acc)] =
                                <<previous[1], current[2]>>],
                           Tail(rest))
            ELSE MergeLoopLastEnd(Append(acc, current), Tail(rest))

\* A merge loop that tests each interval against the interval read before it
\* instead of against the last merged one.
RECURSIVE MergeLoopPrevInput(_, _, _)
MergeLoopPrevInput(acc, prev, rest) ==
    IF rest = <<>> THEN acc
    ELSE LET current == Head(rest)
             previous == acc[Len(acc)]
         IN IF current[1] <= prev[2]
            THEN MergeLoopPrevInput([acc EXCEPT ![Len(acc)] =
                                <<previous[1], Max(previous[2], current[2])>>],
                           current, Tail(rest))
            ELSE MergeLoopPrevInput(Append(acc, current), current, Tail(rest))

\* Faulty variants of merge_overlapping_segments: the loop above in place of
\* the real one, or the sort left out.
MergeAgainstPreviousInput(segs) ==
    IF segs = <<>> THEN <<>>
    ELSE LET s == SortByStart(segs) IN MergeLoopPrevInput(<<s[1]>>, s[1], Tail(s))

MergeWithoutSort(segs) ==
    IF segs = <<>> THEN <<>> ELSE MergeLoop(<<segs[1]>>, Tail(segs))

MergeKeepingTouching(segs) ==
    IF segs = <<>> THEN <<>>
    ELSE LET s == SortByStart(segs) IN MergeLoopStrict(<<s[1]>>, Tail(s))

MergeTakingLastEnd(segs) ==
    IF segs = <<>> THEN <<>>
    ELSE LET s == SortByStart(segs) IN MergeLoopLastEnd(<<s[1]>>, Tail(s))

\* The list merge_overlapping_segments returns for the list segs.
MergedOf(segs) ==
    IF segs = <<>> THEN <<>>
    ELSE LET s == SortByStart(segs) IN MergeLoop(<<s[1]>>, Tail(s))

\* The caller's list after the call: segments.sort sorts it in place, unless
\* the early return for the empty list was taken.
ArgumentAfterMerge(segs) ==
    IF segs = <<>> THEN segs ELSE SortByStart(segs)

\* --------------------------------------------- the Interval Merger, called
Pairs == (0..MaxT) \X (0..MaxT)

\* The variables a specification does not use.
MergeIdle ==
    /\ segments = <<>>
    /\ merged = <<>>
    /\ remerged = <<>>
    /\ shuffled = <<>>
    /\ mergedShuffled = <<>>

FilterIdle ==
    /\ skip_patterns = <<>>
    /\ skip_intervals = <<>>

TimingIdle ==
    /\ padding = 0
    /\ delay = 0
    /\ speech_segments = <<>>
    /\ condensed_subs = <<>>
    /\ cumulative_duration = 0
    /\ cumulative_history = <<>>

ProcessIdle ==
    /\ enabled = {}
    /\ steps = <<>>
    /\ outputs = {}
    /\ error = ""

LrcIdle == lrc_lines = <<>>

ChapterIdle ==
    /\ chapters = <<>>
    /\ skip_chapters = [set |-> FALSE, titles |-> <<>>]

ConfigIdle == line_skip_patterns = <<>>

MainIdle ==
    /\ input_files = <<>>
    /\ results = <<>>
    /\ successful_files = 0
    /\ exit_status = 0

MoveIdle ==
    /\ fs = <<>>
    /\ clock = 0
    /\ if_file_exists = ""
    /\ user_input = ""
    /\ returned = [kind |-> "", n |-> 0]
    /\ calls = 0

OtherIdle == LrcIdle /\ ChapterIdle /\ ConfigIdle /\ MainIdle /\ MoveIdle

InitMerge ==
    /\ pc = "m_start"
    /\ segments \in SeqsUpTo(Pairs, MaxSegs)
    /\ merged = <<>>
    /\ remerged = <<>>
    /\ shuffled = <<>>
    /\ mergedShuffled = <<>>
    /\ subs = <<>>
    /\ loaded = <<>>
    /\ FilterIdle
    /\ TimingIdle
    /\ ProcessIdle
    /\ OtherIdle

\* merged = merge_overlapping_segments(segments)
CallMerge ==
    /\ pc = "m_start"
    /\ merged' = MergedOf(segments)
    /\ segments' = ArgumentAfterMerge(segments)
    /\ pc' = "m_merged"
    /\ UNCHANGED <<remerged, shuffled, mergedShuffled, subs, loaded, filterVars, otherVars,
                   timingVars,
                   processVars>>

\* remerged = merge_overlapping_segments(merged)
CallMergeAgain ==
    /\ pc = "m_merged"
    /\ remerged' = MergedOf(merged)
    /\ merged' = ArgumentAfterMerge(merged)
    /\ pc' = "m_remerged"
    /\ UNCHANGED <<segments, shuffled, mergedShuffled, subs, loaded, filterVars, otherVars,
                   timingVars,
                   processVars>>

\* The same intervals are handed over in another order.
Shuffle ==
    /\ pc = "m_remerged"
    /\ shuffled' \in Reorderings(segments)
    /\ pc' = "m_shuffled"
    /\ UNCHANGED <<segments, merged, remerged, mergedShuffled, subs, loaded, filterVars, otherVars,
                   timingVars,
                   processVars>>

\* mergedShuffled = merge_overlapping_segments(shuffled)
CallMergeShuffled ==
    /\ pc = "m_shuffled"
    /\ mergedShuffled' = MergedOf(shuffled)
    /\ shuffled' = ArgumentAfterMerge(shuffled)
    /\ pc' = "m_done"
    /\ UNCHANGED <<segments, merged, remerged, subs, loaded, filterVars, otherVars,
                   timingVars,
                   processVars>>

NextMerge == CallMerge \/ CallMergeAgain \/ Shuffle \/ CallMergeShuffled

SpecMerge == InitMerge /\ [][NextMerge]_vars

\* ------------------------------------------------------------ the Cue Filter
\* A cue text is a sequence of tokens: letters, and Tag for one override block
\* such as {\i1}.
Tag == "{tag}"

\* SSAEvent.plaintext: the text with its override blocks removed.
Plaintext(text) == SelectSeq(text, LAMBDA c : c # Tag)

\* A pattern is a sequence of atoms, a letter or "." (any one character).
\* The regex matcher at one position: the pattern matches the characters of
\* text from its first one on; text may go on after the match.
RECURSIVE MatchesHere(_, _)
MatchesHere(pattern, text) ==
    IF pattern = <<>> THEN TRUE
    ELSE IF text = <<>> THEN FALSE
    ELSE /\ (Head(pattern) = "." \/ Head(pattern) = Head(text))
         /\ MatchesHere(Tail(pattern), Tail(text))

\* pattern.search(text): a match starting anywhere in the text.
PatternSearch(pattern, text) ==
    \E k \in 1..(Len(text) + 1) : MatchesHere(pattern, SubSeq(text, k, Len(text)))

\* pattern.match(text): a match starting at the beginning of the text.
PatternMatch(pattern, text) == MatchesHere(pattern, text)

\* The events filter_skip_patterns_in_place leaves in subs.events.
FilteredBySkipPatterns(events, patterns) ==
    SelectSeq(events,
              LAMBDA line : ~\E k \in 1..Len(patterns) :
                                 PatternMatch(patterns[k], Plaintext(line.text)))

\* An overlap test that only asks whether the cue starts in the interval.
StartsInInterval(sub_start, sub_end, skip) ==
    sub_start >= skip[1] /\ sub_start <= skip[2]

\* An overlap test that lets a cue touching the interval at a boundary pass.
SegmentsOverlapProperly(sub_start, sub_end, skip) ==
    ~(sub_end <= skip[1] \/ sub_start >= skip[2])

\* segments_overlap of filter_chapters_in_place; sub_start and sub_end are
\* line.start / 1000 and line.end / 1000.
segments_overlap(sub_start, sub_end, skip) ==
    ~(sub_end < skip[1] \/ sub_start > skip[2])

\* The events filter_chapters_in_place leaves in subs.events.
FilteredByChapters(events, skips) ==
    SelectSeq(events,
              LAMBDA line : ~\E k \in 1..Len(skips) :
                                 segments_overlap(line.start, line.end, skips[k]))

\* Inputs of the pattern filter.
Texts == {<<>>, <<"a">>, <<"b">>, <<"a", "b">>, <<"b", "a">>, <<Tag, "a">>}
Patterns == {<<>>, <<"a">>, <<".", "a">>, <<"b", ".">>}
PatternCues == [start : 0..1, end : 1..2, text : Texts]

InitPattern ==
    /\ pc = "p_start"
    /\ subs \in SeqsUpTo(PatternCues, MaxCues)
    /\ loaded = subs
    /\ skip_patterns \in SeqsUpTo(Patterns, MaxPatterns)
    /\ skip_intervals = <<>>
    /\ MergeIdle
    /\ TimingIdle
    /\ ProcessIdle
    /\ OtherIdle

\* filter_skip_patterns_in_place(subs, skip_patterns)
FilterSkipPatterns ==
    /\ pc = "p_start"
    /\ subs' = FilteredBySkipPatterns(subs, skip_patterns)
    /\ pc' = "p_done"
    /\ UNCHANGED <<mergeVars, loaded, filterVars, otherVars, timingVars,
                   processVars>>

NextPattern == FilterSkipPatterns

SpecPattern == InitPattern /\ [][NextPattern]_vars

\* Inputs of the chapter filter.  The k-th cue of a file carries a text of its
\* own, k letters long, so that a cue is recognised wherever it ends up.
LineText(k) == [i \in 1..k |-> "a"]
CuesAt(times) ==
    [k \in 1..Len(times) |->
        [start |-> times[k][1], end |-> times[k][2], text |-> LineText(k)]]
CueTimes == (0..MaxCueT) \X (0..MaxCueT)
SkipIntervals == {<<0, 0>>, <<1, 2>>, <<3, 3>>}

InitChapters ==
    /\ pc = "c_start"
    /\ \E times \in SeqsUpTo(CueTimes, MaxCues) : subs = CuesAt(times)
    /\ loaded = subs
    /\ skip_patterns = <<>>
    /\ skip_intervals \in SeqsUpTo(SkipIntervals, MaxSkips)
    /\ MergeIdle
    /\ TimingIdle
    /\ ProcessIdle
    /\ OtherIdle

\* filter_chapters_in_place(subs, skip_intervals)
FilterChapters ==
    /\ pc = "c_start"
    /\ subs' = FilteredByChapters(subs, skip_intervals)
    /\ pc' = "c_done"
    /\ UNCHANGED <<mergeVars, loaded, filterVars, otherVars, timingVars,
                   processVars>>

\* ------------------------------------------------- the Speech Segment Deriver
\* SSAFile.shift(ms=delay): the delay is added to every start and end.
Shifted(events, ms) ==
    [k \in 1..Len(events) |->
        [events[k] EXCEPT !.start = @ + ms, !.end = @ + ms]]

\* A shift that moves the starts and leaves the ends.
ShiftedStartsOnly(events, ms) ==
    [k \in 1..Len(events) |-> [events[k] EXCEPT !.start = @ + ms]]

\* A delay applied only when it is positive.
SubsAfterPositiveDelay(events, ms) ==
    IF ms > 0 THEN Shifted(events, ms) ELSE events

\* A shift that also writes the padding into the cues.
SubsAfterDelayPadded(events, ms) ==
    [k \in 1..Len(events) |->
        [events[k] EXCEPT !.start = @ + ms - padding, !.end = @ + ms + padding]]

\* subs.events after the first lines of extract_speech_timing_from_subtitles:
\* shifted in place when the delay is not 0.
SubsAfterDelay(events, ms) ==
    IF ms # 0 THEN Shifted(events, ms) ELSE events

\* A clamp that leaves the value as it is.
Unclamped(x) == x

\* max(0, x)
ClampToZero(x) == Max(0, x)

\* A test that lets zero-length intervals through.
NotNegativeDuration(start, end) == end >= start

\* if end > start: only segments of positive duration are added.
PositiveDuration(start, end) == end > start

\* The loop over the cues: the padded, clamped intervals in cue order.
RECURSIVE PaddedSegments(_, _)
PaddedSegments(events, pad) ==
    IF events = <<>> THEN <<>>
    ELSE LET line == Head(events)
             start == ClampToZero(line.start - pad)
             end == ClampToZero(line.end + pad)
         IN (IF PositiveDuration(start, end) THEN << <<start, end>> >> ELSE <<>>)
            \o PaddedSegments(Tail(events), pad)

\* The padded intervals returned as they are, not merged.
SpeechTimingUnmerged(events, pad) == PaddedSegments(events, pad)

\* The padded intervals sorted by start and not merged.
SpeechTimingSorted(events, pad) == SortByStart(PaddedSegments(events, pad))

\* The list extract_speech_timing_from_subtitles returns for the cues events,
\* the delay already applied to them.
SpeechTimingOf(events, pad) == MergedOf(PaddedSegments(events, pad))

\* The chapter filter followed by the Deriver, as in process_file:
\* speech_segments = extract_speech_timing_from_subtitles(context, subtitles)
\* for the cues filter_chapters_in_place has left.
ExtractTimingOfKept ==
    /\ pc = "c_done"
    /\ subs' = SubsAfterDelay(subs, delay)
    /\ speech_segments' = SpeechTimingOf(subs', padding)
    /\ pc' = "c_extracted"
    /\ UNCHANGED <<mergeVars, loaded, filterVars, otherVars, padding, delay,
                   condensed_subs, cumulative_duration, cumulative_history,
                   processVars>>

NextChapters == FilterChapters \/ ExtractTimingOfKept

SpecChapters == InitChapters /\ [][NextChapters]_vars

\* ------------------------------------------------------ the Subtitle Re-timer
\* SSAEvent orders cues by (start, end); subs.sort() is list.sort, stable.
CueBefore(a, b) == a.start < b.start \/ (a.start = b.start /\ a.end < b.end)

RECURSIVE InsertByTime(_, _)
InsertByTime(sorted, x) ==
    IF sorted = <<>> THEN <<x>>
    ELSE IF ~CueBefore(x, Head(sorted))
         THEN <<Head(sorted)>> \o InsertByTime(Tail(sorted), x)
         ELSE <<x>> \o sorted

\* The cue list left in the order it came in.
LeftUnsorted(events) == events

RECURSIVE SortedByTime(_)
SortedByTime(events) ==
    IF events = <<>> THEN <<>>
    ELSE InsertByTime(SortedByTime(SubSeq(events, 1, Len(events) - 1)),
                      events[Len(events)])

\* Thousandths n for which the double n / 1000, multiplied by 1000, lies just
\* below n (1.001 * 1000 is 1000.9999999999999); no n below 1001 is one.
TruncatedShort ==
    {1001, 1003, 1005, 1007, 1009, 1011, 1013, 1015, 1017, 1019, 1021, 1023}

\* int(x * 1000) for the seconds x, truncating the double product.
IntMs(x) == IF x \in TruncatedShort THEN x - 1 ELSE x

\* bisect_left(a, x, lo, hi) on the 0-based list a; a[mid] is a[mid + 1] here.
RECURSIVE Bisect(_, _, _, _)
Bisect(a, x, lo, hi) ==
    IF lo < hi
    THEN LET mid == (lo + hi) \div 2
         IN IF a[mid + 1] < x THEN Bisect(a, x, mid + 1, hi)
                              ELSE Bisect(a, x, lo, mid)
    ELSE lo

\* bisect_right in place of bisect_left: the index behind the elements equal
\* to x.
RECURSIVE BisectRight(_, _, _, _)
BisectRight(a, x, lo, hi) ==
    IF lo < hi
    THEN LET mid == (lo + hi) \div 2
         IN IF x < a[mid + 1] THEN BisectRight(a, x, lo, mid)
                              ELSE BisectRight(a, x, mid + 1, hi)
    ELSE lo

bisect_right(a, x) == BisectRight(a, x, 0, Len(a))

bisect_left(a, x) == Bisect(a, x, 0, Len(a))

\* The inner loop over subs[start_index:]: the re-timed cues of one segment.
RECURSIVE RetimedFrom(_, _, _, _, _)
RetimedFrom(events, i, segment_start, segment_end_ms, cumulative) ==
    IF i > Len(events) THEN <<>>
    ELSE LET sub == events[i]
             segment_duration == segment_end_ms - segment_start
         IN IF sub.start >= segment_end_ms THEN <<>>
            ELSE << [start |-> sub.start - segment_start + cumulative,
                     end |-> Min(sub.end - segment_start + cumulative,
                                 segment_duration + cumulative),
                     text |-> sub.text] >>
                 \o RetimedFrom(events, i + 1, segment_start, segment_end_ms,
                                cumulative)

\* The outer loop over speech_segments, with events sorted: the batch of
\* re-timed cues, the cumulative duration after the last segment and the
\* values it took after each segment.
RECURSIVE CondenseLoop(_, _, _)
CondenseLoop(events, segs, cumulative) ==
    IF segs = <<>>
    THEN [batch |-> <<>>, cumulative |-> cumulative, history |-> <<>>]
    ELSE LET segment_start == IntMs(Head(segs)[1])
             segment_end_ms == IntMs(Head(segs)[2])
             segment_duration == segment_end_ms - segment_start
             sub_starts == [k \in 1..Len(events) |-> events[k].start]
             start_index == bisect_left(sub_starts, segment_start)
             here == RetimedFrom(events, start_index + 1, segment_start,
                                 segment_end_ms, cumulative)
             later == CondenseLoop(events, Tail(segs),
                                   cumulative + segment_duration)
         IN [batch |-> here \o later.batch,
             cumulative |-> later.cumulative,
             history |-> <<cumulative + segment_duration>> \o later.history]

\* An outer loop that advances the cumulative duration only past segments in
\* which a cue was found.
RECURSIVE CondenseLoopSkippingEmpty(_, _, _)
CondenseLoopSkippingEmpty(events, segs, cumulative) ==
    IF segs = <<>>
    THEN [batch |-> <<>>, cumulative |-> cumulative, history |-> <<>>]
    ELSE LET segment_start == IntMs(Head(segs)[1])
             segment_end_ms == IntMs(Head(segs)[2])
             segment_duration == segment_end_ms - segment_start
             sub_starts == [k \in 1..Len(events) |-> events[k].start]
             start_index == bisect_left(sub_starts, segment_start)
             here == RetimedFrom(events, start_index + 1, segment_start,
                                 segment_end_ms, cumulative)
             advanced == IF here = <<>> THEN cumulative
                         ELSE cumulative + segment_duration
             later == CondenseLoopSkippingEmpty(events, Tail(segs), advanced)
         IN [batch |-> here \o later.batch,
             cumulative |-> later.cumulative,
             history |-> <<advanced>> \o later.history]

CondensedSkippingEmpty(events, segs) ==
    CondenseLoopSkippingEmpty(SortedByTime(events), segs, 0)

\* What create_condensed_subtitles computes for the cues events, not yet
\* sorted, and the segments segs.
CondensedOf(events, segs) == CondenseLoop(SortedByTime(events), segs, 0)

\* The cue list create_condensed_subtitles leaves behind with the re-timed
\* values written into the cues themselves instead of into copies.
SubsRetimedInPlace(events, segs) == CondensedOf(events, segs).batch

\* subs.events after create_condensed_subtitles: sorted by subs.sort(); the
\* loop assigns only to the fields of new_sub.
SubsAfterCondense(events, segs) == SortedByTime(events)

\* Inputs of the Deriver and the Re-timer.
InitTiming ==
    /\ pc = "t_start"
    /\ \E times \in SeqsUpTo(CueTimes, MaxCues) : subs = CuesAt(times)
    /\ loaded = subs
    /\ padding \in 0..MaxPadding
    /\ delay \in (0 - MaxDelay)..MaxDelay
    /\ speech_segments = <<>>
    /\ condensed_subs = <<>>
    /\ cumulative_duration = 0
    /\ cumulative_history = <<>>
    /\ FilterIdle
    /\ MergeIdle
    /\ ProcessIdle
    /\ OtherIdle

\* speech_segments = extract_speech_timing_from_subtitles(context, subs)
ExtractSpeechTiming ==
    /\ pc = "t_start"
    /\ subs' = SubsAfterDelay(subs, delay)
    /\ speech_segments' = SpeechTimingOf(subs', padding)
    /\ pc' = "t_extracted"
    /\ UNCHANGED <<mergeVars, loaded, filterVars, otherVars, padding, delay,
                   condensed_subs, cumulative_duration, cumulative_history,
                   processVars>>

\* create_condensed_subtitles(context, subs, speech_segments)
CreateCondensedSubtitles ==
    /\ pc = "t_extracted"
    /\ subs' = SubsAfterCondense(subs, speech_segments)
    /\ condensed_subs' = CondensedOf(subs, speech_segments).batch
    /\ cumulative_duration' = CondensedOf(subs, speech_segments).cumulative
    /\ cumulative_history' = <<0>> \o CondensedOf(subs, speech_segments).history
    /\ pc' = "t_done"
    /\ UNCHANGED <<mergeVars, loaded, filterVars, otherVars, padding, delay,
                   speech_segments, processVars>>

NextTiming == ExtractSpeechTiming \/ CreateCondensedSubtitles

SpecTiming == InitTiming /\ [][NextTiming]_vars

\* Inputs on the scale of a subtitle file: cues of one second, a padding of 0
\* or 0.5 s and a delay of one second either way.  Every time is a multiple of
\* half a second, which a double holds exactly.
ScenarioLines ==
    { [start |-> 1000, end |-> 2000, text |-> <<"A">>],
      [start |-> 3000, end |-> 4000, text |-> <<"B">>],
      [start |-> 2000, end |-> 3000, text |-> <<"A">>],
      [start |-> 5000, end |-> 6000, text |-> <<"B">>] }
ScenarioPaddings == {0, 500}
ScenarioDelays == {0 - 1000, 0, 1000}

InitScenario ==
    /\ pc = "t_start"
    /\ subs \in SeqsUpTo(ScenarioLines, MaxCues)
    /\ loaded = subs
    /\ padding \in ScenarioPaddings
    /\ delay \in ScenarioDelays
    /\ speech_segments = <<>>
    /\ condensed_subs = <<>>
    /\ cumulative_duration = 0
    /\ cumulative_history = <<>>
    /\ FilterIdle
    /\ MergeIdle
    /\ ProcessIdle
    /\ OtherIdle

SpecScenario == InitScenario /\ [][NextTiming]_vars

\* --------------------------------------------------------------- process_file
\* The condensed outputs a configuration can enable.
Outputs == {"subtitles", "audio", "video"}

\* The steps of process_file from pysubs2.load on, in the order of its lines.
StepOrder ==
    << "filter_skip_patterns_in_place", "filter_chapters_in_place",
       "extract_speech_timing_from_subtitles", "if not speech_segments",
       "create_condensed_subtitles", "extract_segments" >>

\* A test of the segment list that lets every list pass.
EmptinessIgnored(segs) == FALSE

\* if not speech_segments
NoValidSegments(segs) == segs = <<>>

\* The cues of a file: ordinary ones, one of zero length and one with
\* start > end.
ProcessLines ==
    { [start |-> 0, end |-> 1, text |-> <<"a">>],
      [start |-> 1, end |-> 2, text |-> <<"b">>],
      [start |-> 3, end |-> 4, text |-> <<"b", "a">>],
      [start |-> 2, end |-> 2, text |-> <<"b">>],
      [start |-> 4, end |-> 3, text |-> <<"a", "b">>] }

\* The configured line_skip_patterns: none, one that matches cues, one that
\* is not a regular expression, and both.
ConfiguredPatterns ==
    {<<>>, << <<"a">> >>, << <<"(">> >>, << <<"a">>, <<"(">> >>}

\* Whether re.compile accepts the pattern.  The patterns of the model hold no
\* ")", so that a "(" in one is never closed: re.compile raises re.error
\* "missing ), unterminated subpattern".
ValidRegex(pattern) == \A k \in 1..Len(pattern) : pattern[k] # "("

\* A compilation that raises for no pattern.
NothingRaised(patterns) == TRUE

\* Whether [re.compile(pattern) for pattern in line_skip_patterns] ends
\* without an exception.
AllCompiled(patterns) == \A k \in 1..Len(patterns) : ValidRegex(patterns[k])

\* The state after subtitles = pysubs2.load(subtitle_path).
InitProcess ==
    /\ pc = "f_loaded"
    /\ subs \in SeqsUpTo(ProcessLines, MaxCues)
    /\ loaded = subs
    /\ line_skip_patterns \in ConfiguredPatterns
    /\ skip_patterns = <<>>
    /\ skip_intervals \in {<<>>, << <<1, 2>> >>}
    /\ padding \in 0..MaxPadding
    /\ delay \in (0 - MaxDelay)..MaxDelay
    /\ speech_segments = <<>>
    /\ condensed_subs = <<>>
    /\ cumulative_duration = 0
    /\ cumulative_history = <<>>
    /\ enabled \in SUBSET Outputs
    /\ steps = <<>>
    /\ outputs = {}
    /\ error = ""
    /\ MergeIdle
    /\ LrcIdle
    /\ ChapterIdle
    /\ MainIdle
    /\ MoveIdle

\* skip_patterns = [re.compile(pattern) for pattern in line_skip_patterns]:
\* re.error raised for a pattern leaves process_file.
StepCompilePatterns ==
    /\ pc = "f_loaded"
    /\ IF AllCompiled(line_skip_patterns)
       THEN /\ skip_patterns' = line_skip_patterns
            /\ error' = error
            /\ pc' = "f_compiled"
       ELSE /\ skip_patterns' = skip_patterns
            /\ error' = "re.error"
            /\ pc' = "f_not_compiled"
    /\ UNCHANGED <<mergeVars, subs, loaded, skip_intervals, otherVars,
                   timingVars, enabled, steps, outputs>>

\* if skip_patterns: filter_skip_patterns_in_place(subtitles, skip_patterns)
StepSkipPatterns ==
    /\ pc = "f_compiled"
    /\ IF skip_patterns # <<>>
       THEN /\ subs' = FilteredBySkipPatterns(subs, skip_patterns)
            /\ steps' = Append(steps, "filter_skip_patterns_in_place")
       ELSE UNCHANGED <<subs, steps>>
    /\ pc' = "f_patterns"
    /\ UNCHANGED <<mergeVars, loaded, filterVars, otherVars,
                   timingVars, enabled,
                   outputs, error>>

\* if skip_intervals: filter_chapters_in_place(subtitles, skip_intervals)
StepChapters ==
    /\ pc = "f_patterns"
    /\ IF skip_intervals # <<>>
       THEN /\ subs' = FilteredByChapters(subs, skip_intervals)
            /\ steps' = Append(steps, "filter_chapters_in_place")
       ELSE UNCHANGED <<subs, steps>>
    /\ pc' = "f_chapters"
    /\ UNCHANGED <<mergeVars, loaded, filterVars, otherVars,
                   timingVars, enabled,
                   outputs, error>>

\* speech_segments = extract_speech_timing_from_subtitles(context, subtitles)
StepExtractTiming ==
    /\ pc = "f_chapters"
    /\ subs' = SubsAfterDelay(subs, delay)
    /\ speech_segments' = SpeechTimingOf(subs', padding)
    /\ steps' = Append(steps, "extract_speech_timing_from_subtitles")
    /\ pc' = "f_extracted"
    /\ UNCHANGED <<mergeVars, loaded, filterVars, otherVars, padding, delay,
                   condensed_subs, cumulative_duration, cumulative_history,
                   enabled, outputs, error>>

\* if not speech_segments: raise FileProcessingError(..., "No valid segments
\* found"); the exception leaves process_file.
StepCheckSegments ==
    /\ pc = "f_extracted"
    /\ steps' = Append(steps, "if not speech_segments")
    /\ IF NoValidSegments(speech_segments)
       THEN /\ error' = "No valid segments found"
            /\ pc' = "f_failed"
       ELSE /\ error' = error
            /\ pc' = "f_checked"
    /\ UNCHANGED <<mergeVars, subs, loaded, filterVars, otherVars,
                   timingVars, enabled,
                   outputs>>

\* if config["condensed_subtitles.enabled"]: create_condensed_subtitles(...)
StepCondensedSubtitles ==
    /\ pc = "f_checked"
    /\ IF "subtitles" \in enabled
       THEN /\ subs' = SubsAfterCondense(subs, speech_segments)
            /\ condensed_subs' = CondensedOf(subs, speech_segments).batch
            /\ cumulative_duration' =
                   CondensedOf(subs, speech_segments).cumulative
            /\ cumulative_history' =
                   <<0>> \o CondensedOf(subs, speech_segments).history
            /\ steps' = Append(steps, "create_condensed_subtitles")
            /\ outputs' = outputs \cup {"subtitles"}
       ELSE UNCHANGED <<subs, condensed_subs, cumulative_duration,
                        cumulative_history, steps, outputs>>
    /\ pc' = "f_condensed"
    /\ UNCHANGED <<mergeVars, loaded, filterVars, otherVars, padding, delay,
                   speech_segments, enabled, error>>

\* if context.selected_audio_stream: extract_segments and the condensed audio
\* and video that are enabled; an audio stream was selected when one of the
\* two is enabled.
StepExtractSegments ==
    /\ pc = "f_condensed"
    /\ IF enabled \cap {"audio", "video"} # {}
       THEN /\ steps' = Append(steps, "extract_segments")
            /\ outputs' = outputs \cup (enabled \cap {"audio", "video"})
       ELSE UNCHANGED <<steps, outputs>>
    /\ pc' = "f_done"
    /\ UNCHANGED <<mergeVars, subs, loaded, filterVars, otherVars,
                   timingVars, enabled,
                   error>>

NextProcess ==
    \/ StepCompilePatterns
    \/ StepSkipPatterns
    \/ StepChapters
    \/ StepExtractTiming
    \/ StepCheckSegments
    \/ StepCondensedSubtitles
    \/ StepExtractSegments

SpecProcess == InitProcess /\ [][NextProcess]_vars

\* ----------------------------------------------------------------------- main
\* Most files given to one run.
MaxFiles == 3

\* A file: the cues pysubs2.load returns for it, and the exception, if any,
\* that a step of process_file before the cues are used raises for it:
\* FFmpegError from ffprobe or ffmpeg, FileProcessingError when no subtitles
\* are found, another Exception from pysubs2.load.
Faults == {"FFmpegError", "FileProcessingError", "Exception"}
Files ==
    {[cues |-> c, fault |-> ""] :
        c \in {<< [start |-> 0, end |-> 1, text |-> <<"a">>],
                  [start |-> 2, end |-> 3, text |-> <<"b">>] >>,
               << [start |-> 1, end |-> 3, text |-> <<"b">>] >>,
               << [start |-> 2, end |-> 2, text |-> <<"a">>] >>}}
    \cup {[cues |-> <<>>, fault |-> f] : f \in Faults}

\* The counter of a re-timing pass picking up where the pass before it ended.
CounterCarriedOver == cumulative_duration

\* cumulative_duration = 0, the first statement of create_condensed_subtitles
\* on the counter.
CounterAtStart == 0

\* An exit status that tells no failure from a failure of every file.
ExitStatusOfAnyFailure(total_files, successful) ==
    IF total_files - successful # 0 THEN 1 ELSE 0

\* The status main ends with: sys.exit(2 if successful_files == 0 else 1) when
\* failed_files is not 0, and the end of main, status 0, otherwise.
ExitStatus(total_files, successful) ==
    LET failed_files == total_files - successful
    IN IF failed_files # 0 THEN (IF successful = 0 THEN 2 ELSE 1) ELSE 0

\* The state after input_files = get_input_files(args.input), which ends the
\* process when it finds no file.
InitMain ==
    /\ pc = "x_loop"
    /\ input_files \in SeqsUpTo(Files, MaxFiles) \ {<<>>}
    /\ results = <<>>
    /\ successful_files = 0
    /\ exit_status = 0
    /\ subs = <<>>
    /\ loaded = <<>>
    /\ skip_patterns \in {<<>>, << <<"a">> >>}
    /\ skip_intervals = <<>>
    /\ padding \in {0, MaxPadding}
    /\ delay \in {0 - MaxDelay, 0}
    /\ speech_segments = <<>>
    /\ condensed_subs = <<>>
    /\ cumulative_duration = 0
    /\ cumulative_history = <<>>
    /\ enabled = {"subtitles"}
    /\ steps = <<>>
    /\ outputs = {}
    /\ error = ""
    /\ MergeIdle
    /\ LrcIdle
    /\ ChapterIdle
    /\ ConfigIdle
    /\ MoveIdle

\* One turn of the loop of main: process_file(input_file, config, args), the
\* except clauses around it, each of which logs the error and goes on, and
\* successful_files += 1 when process_file has returned.
ProcessNextFile ==
    /\ pc = "x_loop"
    /\ Len(results) < Len(input_files)
    /\ LET file == input_files[Len(results) + 1]
           kept == IF skip_patterns # <<>>
                   THEN FilteredBySkipPatterns(file.cues, skip_patterns)
                   ELSE file.cues
           shifted == SubsAfterDelay(kept, delay)
           segs == SpeechTimingOf(shifted, padding)
           condensed == CondenseLoop(SortedByTime(shifted), segs, CounterAtStart)
       IN IF file.fault # ""
          THEN /\ error' = file.fault
               /\ results' = Append(results,
                      [file |-> file, error |-> file.fault, segments |-> <<>>,
                       cues |-> <<>>, counter |-> <<>>])
               /\ UNCHANGED <<subs, loaded, speech_segments, condensed_subs,
                              cumulative_duration, cumulative_history,
                              successful_files, outputs>>
          ELSE IF NoValidSegments(segs)
          THEN /\ error' = "FileProcessingError"
               /\ subs' = shifted
               /\ loaded' = file.cues
               /\ speech_segments' = segs
               /\ results' = Append(results,
                      [file |-> file, error |-> "FileProcessingError",
                       segments |-> segs,
                       cues |-> <<>>, counter |-> <<>>])
               /\ UNCHANGED <<condensed_subs, cumulative_duration,
                              cumulative_history, successful_files, outputs>>
          ELSE /\ error' = ""
               /\ subs' = SortedByTime(shifted)
               /\ loaded' = file.cues
               /\ speech_segments' = segs
               /\ condensed_subs' = condensed.batch
               /\ cumulative_duration' = condensed.cumulative
               /\ cumulative_history' = <<CounterAtStart>> \o condensed.history
               /\ outputs' = outputs \cup {"subtitles"}
               /\ successful_files' = successful_files + 1
               /\ results' = Append(results,
                      [file |-> file, error |-> "", segments |-> segs,
                       cues |-> condensed.batch,
                       counter |-> <<CounterAtStart>> \o condensed.history])
    /\ pc' = "x_loop"
    /\ UNCHANGED <<mergeVars, filterVars, padding, delay, enabled, steps,
                   lrcVars, chapterVars, configVars, moveVars, input_files,
                   exit_status>>

\* The end of main after the loop.
EndOfMain ==
    /\ pc = "x_loop"
    /\ Len(results) = Len(input_files)
    /\ exit_status' = ExitStatus(Len(input_files), successful_files)
    /\ pc' = "x_exited"
    /\ UNCHANGED <<mergeVars, subs, loaded, filterVars, timingVars,
                   processVars, lrcVars, chapterVars, configVars, moveVars,
                   input_files, results, successful_files>>

NextMain == ProcessNextFile \/ EndOfMain

SpecMain == InitMain /\ [][NextMain]_vars

\* ------------------------------------------------------------------ safe_move
\* Most calls of safe_move in a run.
MaxMoves == 3
\* The last tick of the clock.
MaxClock == 2
\* Ticks of the clock in a second, the resolution of the timestamp.
TicksPerSecond == 2

\* Paths: the suggested path final_path, the temporary file of the k-th call,
\* and f"{base}_{timestamp}{ext}" for a timestamp.
FinalPath == [kind |-> "final", n |-> 0]
TempPath(k) == [kind |-> "temp", n |-> k]
RenamedPath(timestamp) == [kind |-> "renamed", n |-> timestamp]
\* None, returned by get_destination_path, and "", returned by safe_move.
None == [kind |-> "None", n |-> 0]
EmptyString == [kind |-> "", n |-> 0]

\* datetime.now().strftime("%Y%m%d_%H%M%S"): the time to the second.
Timestamp(now) == now \div TicksPerSecond

\* os.path.exists(path)
Exists(files, path) == path \in DOMAIN files

\* shutil.move(src, dst): dst gets the content of src, replacing what it had,
\* and src is gone.
Moved(files, src, dst) ==
    [p \in (DOMAIN files \ {src}) \cup {dst} |->
        IF p = dst THEN files[src] ELSE files[p]]

\* prompt_user_choice with choices Overwrite, Rename, Skip and default Rename,
\* for the last line typed: its first letter, or nothing.
UserInputs == {"", "o", "r", "s"}
PromptUserChoice(typed) ==
    CASE typed = "" -> "rename"
      [] typed = "o" -> "overwrite"
      [] typed = "r" -> "rename"
      [] typed = "s" -> "skip"

\* A choice of path that never looks at what exists.
DestinationAsSuggested(files, final_path, policy, typed, now) == final_path

\* get_destination_path(context, final_path)
GetDestinationPath(files, final_path, policy, typed, now) ==
    IF ~Exists(files, final_path) THEN final_path
    ELSE IF policy = "skip" THEN None
    ELSE LET choice == IF policy = "ask" THEN PromptUserChoice(typed)
                       ELSE policy
         IN IF policy = "ask" /\ choice = "skip" THEN None
            ELSE IF choice = "rename" THEN RenamedPath(Timestamp(now))
            ELSE final_path

\* config["if_file_exists"]: one of FILE_EXISTS_OPTIONS.
FileExistsOptions == {"ask", "overwrite", "rename", "skip"}

\* The temporary files are there, each with a content of its own; the
\* suggested path exists, with content 0, or does not.
InitMove ==
    /\ pc = "s_ready"
    /\ \E there \in BOOLEAN :
          fs = [p \in {TempPath(k) : k \in 1..MaxMoves}
                      \cup (IF there THEN {FinalPath} ELSE {}) |->
                   IF p = FinalPath THEN 0 ELSE p.n]
    /\ clock = 0
    /\ if_file_exists \in FileExistsOptions
    /\ user_input = ""
    /\ returned = EmptyString
    /\ calls = 0
    /\ subs = <<>>
    /\ loaded = <<>>
    /\ MergeIdle
    /\ FilterIdle
    /\ TimingIdle
    /\ ProcessIdle
    /\ LrcIdle
    /\ ChapterIdle
    /\ ConfigIdle
    /\ MainIdle

\* safe_move(context, temp_path, final_path) for the next temporary file; the
\* user types a line when asked.
SafeMove ==
    /\ pc = "s_ready"
    /\ calls < MaxMoves
    /\ \E typed \in UserInputs :
          LET temp_path == TempPath(calls + 1)
              destination ==
                  GetDestinationPath(fs, FinalPath, if_file_exists, typed,
                                     clock)
          IN /\ user_input' = typed
             /\ IF destination = None
                THEN /\ returned' = EmptyString
                     /\ fs' = fs
                ELSE /\ fs' = Moved(fs, temp_path, destination)
                     /\ returned' = destination
    /\ calls' = calls + 1
    /\ UNCHANGED <<pc, mergeVars, subs, loaded, filterVars, timingVars,
                   processVars, lrcVars, chapterVars, configVars, mainVars,
                   clock, if_file_exists>>

\* Time passes between two calls.
Tick ==
    /\ pc = "s_ready"
    /\ clock < MaxClock
    /\ clock' = clock + 1
    /\ UNCHANGED <<pc, mergeVars, subs, loaded, filterVars, timingVars,
                   processVars, lrcVars, chapterVars, configVars, mainVars,
                   fs, if_file_exists, user_input, returned, calls>>

NextMove == SafeMove \/ Tick

SpecMove == InitMove /\ [][NextMove]_vars

\* ------------------------------------------------------------ convert_to_lrc
\* A line of the LRC file is a sequence of characters; the text of a cue is
\* the sequence of its tokens.  Break is the line break \N of a cue text.
Break == "\\N"
Space == " "

\* The decimal digits of a natural number, most significant first.
Digit(d) ==
    CASE d = 0 -> "0" [] d = 1 -> "1" [] d = 2 -> "2" [] d = 3 -> "3"
      [] d = 4 -> "4" [] d = 5 -> "5" [] d = 6 -> "6" [] d = 7 -> "7"
      [] d = 8 -> "8" [] d = 9 -> "9"

RECURSIVE Digits(_)
Digits(n) == IF n < 10 THEN <<Digit(n)>>
             ELSE Append(Digits(n \div 10), Digit(n % 10))

\* The format specification 02d: at least two digits, zero-filled.
ZeroFilled(n) == IF n < 10 THEN <<"0">> \o Digits(n) ELSE Digits(n)

\* The cue starts ending in 5 ms, among those the model draws, for which the
\* double (start / 1000) % 60 lies below the decimal tie, so that the format
\* specification .2f rounds it down: 0.015 is stored as 0.01499..., 59.995
\* as 59.99499...; 0.005 is stored as 0.00500000000000000010....
TiesBelow == {15, 59995}

\* int(minutes) of divmod(sub.start / 1000, 60), wrapped at the hour.
LrcMinutesWrapped(start) == (start \div 60000) % 60

\* int(minutes) of divmod(sub.start / 1000, 60).
LrcMinutes(start) == start \div 60000

\* seconds of divmod(sub.start / 1000, 60) as the format specification .2f
\* rounds it, in hundredths of a second.
LrcHundredths(start) ==
    LET ms == start % 60000
    IN IF ms % 10 = 5
       THEN (IF start \in TiesBelow THEN ms \div 10 ELSE ms \div 10 + 1)
       ELSE (ms + 5) \div 10

\* f"[{int(minutes):02d}:{seconds:05.2f}]"
LrcTime(start) ==
    LET h == LrcHundredths(start)
    IN <<"[">> \o ZeroFilled(LrcMinutes(start)) \o <<":">>
       \o ZeroFilled(h \div 100) \o <<".">>
       \o <<Digit((h % 100) \div 10), Digit(h % 10)>> \o <<"]">>

\* " ".join(text.split()): runs of spaces become one space, and the spaces
\* at either end go.
RECURSIVE JoinedWords(_, _)
JoinedWords(text, pending) ==
    IF text = <<>> THEN <<>>
    ELSE IF Head(text) = Space THEN JoinedWords(Tail(text), TRUE)
    ELSE (IF pending THEN <<Space>> ELSE <<>>) \o <<Head(text)>>
         \o JoinedWords(Tail(text), FALSE)

RECURSIVE LeadingSpacesDropped(_)
LeadingSpacesDropped(text) ==
    IF text # <<>> /\ Head(text) = Space
    THEN LeadingSpacesDropped(Tail(text)) ELSE text

\* strip_subtitle_styles: the override blocks go, every \N becomes a space,
\* and the white space is normalised.
strip_subtitle_styles(text) ==
    LET fragments == SelectSeq(text, LAMBDA c : c # Tag)
        replaced == [k \in 1..Len(fragments) |->
                        IF fragments[k] = Break THEN Space ELSE fragments[k]]
    IN JoinedWords(LeadingSpacesDropped(replaced), FALSE)

\* The metadata lines the LRC file starts with.
LrcHeader ==
    << <<"[ti:", "clean_name", "]">>, <<"[tool:", "PROGRAM_NAME", "]">>,
       <<"[ve:", "VERSION", "]">>, <<"[by:", "REPOSITORY", "]">>, <<>> >>

\* convert_to_lrc(subs, clean_name): the lines it joins with "\n".
ConvertedToLrc(events) ==
    LrcHeader \o [k \in 1..Len(events) |->
                     LrcTime(events[k].start)
                         \o strip_subtitle_styles(events[k].text)]

\* sub.text = strip_subtitle_styles(sub.text): the cues convert_to_lrc leaves.
StrippedInPlace(events) ==
    [k \in 1..Len(events) |->
        [events[k] EXCEPT !.text = strip_subtitle_styles(events[k].text)]]

\* The re-timed cues handed to convert_to_lrc: starts around the rounding
\* ties, the minute and the hour.
LrcStarts ==
    {0, 5, 15, 1000, 59994, 59995, 59999, 60000, 3599999, 3600000,
     5999999, 6000000}

LrcTexts ==
    {<<"a">>, <<Tag, "a", Break, "b">>, <<Space, "a", Space, Space, "b">>}

LrcCues ==
    {[start |-> s, end |-> s + 1000, text |-> t] :
        s \in LrcStarts, t \in LrcTexts}

InitLrc ==
    /\ pc = "l_start"
    /\ condensed_subs \in SeqsUpTo(LrcCues, MaxCues)
    /\ lrc_lines = <<>>
    /\ subs = <<>>
    /\ loaded = <<>>
    /\ padding = 0
    /\ delay = 0
    /\ speech_segments = <<>>
    /\ cumulative_duration = 0
    /\ cumulative_history = <<>>
    /\ MergeIdle
    /\ FilterIdle
    /\ ProcessIdle
    /\ ChapterIdle
    /\ ConfigIdle
    /\ MainIdle
    /\ MoveIdle

ConvertToLrc ==
    /\ pc = "l_start"
    /\ lrc_lines' = ConvertedToLrc(condensed_subs)
    /\ condensed_subs' = StrippedInPlace(condensed_subs)
    /\ pc' = "l_done"
    /\ UNCHANGED <<mergeVars, subs, loaded, filterVars, padding, delay,
                   speech_segments, cumulative_duration, cumulative_history,
                   processVars, chapterVars, configVars, mainVars,
                   moveVars>>

NextLrc == ConvertToLrc

SpecLrc == InitLrc /\ [][NextLrc]_vars

\* ------------------------------------------------ get_skipped_chapter_intervals
\* A chapter title and a configured title are sequences of characters.
\* str.lower() of one character, over the letters the model uses.
LowerChar(c) == CASE c = "O" -> "o" [] c = "P" -> "p" [] OTHER -> c

\* title.lower()
Lower(title) == [k \in 1..Len(title) |-> LowerChar(title[k])]

\* float(s) of a time s written d.d, in thousandths of a second.
Float(s) ==
    LET digit(c) == CHOOSE d \in 0..9 : Digit(d) = c
    IN 1000 * digit(s[1]) + 100 * digit(s[3])

\* context.config.get("skip_chapters", []): Unset is a configuration without
\* the key.
Unset == [set |-> FALSE, titles |-> <<>>]
SkipTitles(config) == IF config.set THEN config.titles ELSE <<>>

\* chapter["tags"]["title"].lower() in skip_titles
TitleMatches(title, skip_titles) ==
    \E k \in 1..Len(skip_titles) : skip_titles[k] = Lower(title)

\* The list get_skipped_chapter_intervals returns.
SkippedChapterIntervals(chaps, config) ==
    LET matched_chapters ==
            SelectSeq(chaps,
                      LAMBDA ch : TitleMatches(ch.title, SkipTitles(config)))
    IN [k \in 1..Len(matched_chapters) |->
           <<Float(matched_chapters[k].start_time),
             Float(matched_chapters[k].end_time)>>]

\* The titles of chapters and of configured entries: "op" in three casings,
\* a longer title that contains it, and another title.
Titles ==
    {<<"o", "p">>, <<"O", "p">>, <<"O", "P">>, <<"o", "p", "x">>, <<"e", "d">>}

ChapterTimes ==
    {<< <<"0", ".", "0">>, <<"1", ".", "5">> >>,
     << <<"1", ".", "5">>, <<"3", ".", "0">> >>}

Chapters ==
    {[title |-> t, start_time |-> se[1], end_time |-> se[2]] :
        t \in Titles, se \in ChapterTimes}

SkipChaptersConfigs ==
    {Unset} \cup
    {[set |-> TRUE, titles |-> t] :
        t \in SeqsUpTo({<<"o", "p">>, <<"O", "p">>, <<"e", "d">>}, 2)}

InitSkipChapters ==
    /\ pc = "k_start"
    /\ chapters \in SeqsUpTo(Chapters, MaxSkips)
    /\ skip_chapters \in SkipChaptersConfigs
    /\ skip_patterns = <<>>
    /\ skip_intervals = <<>>
    /\ subs = <<>>
    /\ loaded = <<>>
    /\ MergeIdle
    /\ TimingIdle
    /\ ProcessIdle
    /\ LrcIdle
    /\ ConfigIdle
    /\ MainIdle
    /\ MoveIdle

GetSkippedChapterIntervals ==
    /\ pc = "k_start"
    /\ skip_intervals' = SkippedChapterIntervals(chapters, skip_chapters)
    /\ pc' = "k_done"
    /\ UNCHANGED <<mergeVars, subs, loaded, skip_patterns, timingVars,
                   processVars, lrcVars, chapterVars, configVars, mainVars,
                   moveVars>>

NextSkipChapters == GetSkippedChapterIntervals

SpecSkipChapters == InitSkipChapters /\ [][NextSkipChapters]_vars

\* ===================================================== Interval Merger claims
WellFormed(segs) == \A i \in 1..Len(segs) : segs[i][1] <= segs[i][2]

RECURSIVE SumDurations(_)
SumDurations(segs) ==
    IF segs = <<>> THEN 0
    ELSE (Head(segs)[2] - Head(segs)[1]) + SumDurations(Tail(segs))

\* Sorted ascending by start, each interval beginning after the one before it
\* has ended.
SortedAndApart(out) ==
    \A i \in 1..(Len(out) - 1) :
        /\ out[i][1] <= out[i + 1][1]
        /\ out[i + 1][1] > out[i][2]

\* C1: every list merge_overlapping_segments returns, for sorted or unsorted
\* input and for pairs with end <= start alike, is sorted ascending by start
\* and each interval starts after the end of the one before it.
C1_OutputSortedAndApart ==
    /\ SortedAndApart(merged)
    /\ SortedAndApart(remerged)
    /\ SortedAndApart(mergedShuffled)

\* An unsorted list holding a pair with end < start has been merged into
\* more than one interval.
C1_Witness ==
    /\ pc = "m_done"
    /\ Len(mergedShuffled) >= 2
    /\ \E i \in 1..Len(segments) : segments[i][2] < segments[i][1]
    /\ \E s \in Reorderings(segments) : s # segments /\ MergedOf(s) = mergedShuffled

\* Two closed intervals that share at least one point.
Meet(a, b) == a[1] <= b[2] /\ b[1] <= a[2]

\* The indices reachable from the set S through chains of meeting intervals.
RECURSIVE Chain(_, _, _)
Chain(segs, S, k) ==
    IF k = 0 THEN S
    ELSE Chain(segs,
               S \cup {j \in 1..Len(segs) : \E i \in S : Meet(segs[i], segs[j])},
               k - 1)

MinOf(S) == CHOOSE x \in S : \A y \in S : x <= y
MaxOf(S) == CHOOSE x \in S : \A y \in S : x >= y

\* The connected components of the union of the closed intervals of segs, each
\* as (min start, max end).
Components(segs) ==
    {LET C == Chain(segs, {i}, Len(segs))
     IN <<MinOf({segs[j][1] : j \in C}), MaxOf({segs[j][2] : j \in C})>> :
         i \in 1..Len(segs)}

\* C2: for well-formed intervals (start <= end) the call returns exactly the
\* connected components of the union of the closed input intervals, one
\* interval (min start, max end) per component, in ascending order; touching
\* intervals fall in one component, intervals a positive gap apart do not.
C2_ConnectedComponents ==
    [][(pc = "m_start" /\ WellFormed(segments)) =>
          /\ {merged'[i] : i \in 1..Len(merged')} = Components(segments)
          /\ Len(merged') = Cardinality(Components(segments))
          /\ SortedAndApart(merged')]_vars

\* Well-formed input with two intervals that only touch and a third one a gap
\* away has come back as two intervals.
C2_Witness ==
    /\ pc = "m_merged"
    /\ WellFormed(segments)
    /\ Len(segments) = 3
    /\ Len(merged) = 2
    /\ \E i, j \in 1..3 : i # j /\ segments[i][2] = segments[j][1]
                          /\ segments[i][1] < segments[i][2]
                          /\ segments[j][1] < segments[j][2]

\* C3: merging any reordering of a list, pairs with end < start included,
\* returns the same list as merging the list itself.
C3_AnyOrderSameOutput ==
    pc = "m_done" => mergedShuffled = merged

\* Two inputs that overlap or touch (closed intervals sharing a point).
SomeTwoMeet(segs) ==
    \E i, j \in 1..Len(segs) : i # j /\ Meet(segs[i], segs[j])

\* Two inputs that share a range of positive length.
SomeTwoOverlapProperly(segs) ==
    \E i, j \in 1..Len(segs) :
        i # j /\ Max(segs[i][1], segs[j][1]) < Min(segs[i][2], segs[j][2])

\* C4 as stated: for every input list the durations returned sum to at most
\* the durations given, with equality exactly when no two inputs overlapped
\* or touched.
C4_TotalityAsStated ==
    [][pc = "m_start" =>
          /\ SumDurations(merged') <= SumDurations(segments)
          /\ (SumDurations(merged') = SumDurations(segments)
                <=> ~SomeTwoMeet(segments))]_vars

\* C4 amended: for well-formed input (start <= end) the durations returned sum
\* to at most the durations given, with equality exactly when no two inputs
\* share a range of positive length; inputs that only touch, or a zero-length
\* input inside another, are merged without changing the sum.
C4_Totality ==
    [][(pc = "m_start" /\ WellFormed(segments)) =>
          /\ SumDurations(merged') <= SumDurations(segments)
          /\ (SumDurations(merged') = SumDurations(segments)
                <=> ~SomeTwoOverlapProperly(segments))
          /\ (~SomeTwoMeet(segments) =>
                SumDurations(merged') = SumDurations(segments))]_vars

\* Well-formed inputs that touch have been merged into one interval of the
\* same total duration.
C4_Witness ==
    /\ pc = "m_merged"
    /\ WellFormed(segments)
    /\ SomeTwoMeet(segments)
    /\ ~SomeTwoOverlapProperly(segments)
    /\ Len(merged) < Len(segments)
    /\ SumDurations(merged) = SumDurations(segments)
    /\ SumDurations(merged) > 0

\* C5: merging the list a merge returned gives that list again, and the empty
\* list is returned for the empty list.
C5_Idempotent ==
    [][/\ pc = "m_merged" => remerged' = merged
       /\ (pc = "m_start" /\ segments = <<>>) => merged' = <<>>]_vars

\* A list that the first merge shortened to more than one interval has been
\* merged a second time.
C5_Witness ==
    /\ pc = "m_remerged"
    /\ Len(remerged) >= 2
    /\ Len(remerged) < Len(segments)

\* C6: a call leaves the caller's list as it was, the same elements in the
\* same order.
C6_ArgumentUnchanged ==
    [][pc = "m_start" => segments' = segments]_vars

\* ========================================================= Cue Filter claims
\* The k-th smallest element of the set S of indices.
Nth(S, k) == CHOOSE i \in S : Cardinality({j \in S : j < i}) = k - 1

\* kept is the list before with exactly the cues at the indices Keep, in the
\* order and with the fields they had.
KeepsExactly(before, kept, Keep) ==
    /\ Len(kept) = Cardinality(Keep)
    /\ \A k \in 1..Len(kept) : kept[k] = before[Nth(Keep, k)]

\* The plain text begins with a match: the pattern is no longer than the text
\* and agrees with it position by position.
StartsWithMatch(pattern, plain) ==
    /\ Len(pattern) <= Len(plain)
    /\ \A i \in 1..Len(pattern) : pattern[i] = "." \/ pattern[i] = plain[i]

\* The text without its override blocks, position by position.
PlainOf(text) ==
    LET Letters == {i \in 1..Len(text) : text[i] # Tag}
    IN [k \in 1..Cardinality(Letters) |-> text[Nth(Letters, k)]]

\* C7: filter_skip_patterns_in_place removes exactly the cues whose plain text
\* begins with a match of at least one skip pattern (a match further on in the
\* text removes nothing); the cues left keep their order, start, end and text;
\* with no pattern the list is unchanged.
C7_PatternFilter ==
    [][pc = "p_start" =>
          /\ KeepsExactly(subs, subs',
                {i \in 1..Len(subs) :
                    ~\E k \in 1..Len(skip_patterns) :
                        StartsWithMatch(skip_patterns[k], PlainOf(subs[i].text))})
          /\ (skip_patterns = <<>> => subs' = subs)]_vars

\* A cue whose text holds a match of a pattern, but not at its beginning, has
\* survived a filter that removed another cue.
C7_Witness ==
    /\ pc = "p_done"
    /\ skip_patterns = << <<"a">> >>
    /\ Len(loaded) = 2
    /\ loaded[1].text = <<"a", "b">>
    /\ loaded[2].text = <<"b", "a">>
    /\ subs = <<loaded[2]>>

\* C8: filter_chapters_in_place removes exactly the cues for which some skip
\* interval has cue.end / 1000 >= skip.start and cue.start / 1000 <= skip.end,
\* so a cue touching a skip interval at a boundary is removed; the cues left
\* keep their order, timing and text; with no skip interval the list is
\* unchanged.
C8_ChapterFilter ==
    [][pc = "c_start" =>
          /\ KeepsExactly(subs, subs',
                {i \in 1..Len(subs) :
                    ~\E k \in 1..Len(skip_intervals) :
                        /\ subs[i].end >= skip_intervals[k][1]
                        /\ subs[i].start <= skip_intervals[k][2]})
          /\ (skip_intervals = <<>> => subs' = subs)]_vars

\* Of two cues, the first, which ended exactly where the skip interval (1, 2)
\* starts, has been removed and the second has been kept.
C8_Witness ==
    /\ pc = "c_done"
    /\ skip_intervals = << <<1, 2>> >>
    /\ Len(loaded) = 2
    /\ loaded[1].start = 0 /\ loaded[1].end = 1
    /\ loaded[2].start = 3 /\ loaded[2].end = 3
    /\ subs = <<loaded[2]>>

\* C29: with padding 0 and delay 0, whatever the cues and the skip intervals
\* (start <= end), no speech segment derived from the cues the chapter filter
\* has left overlaps or touches a skip interval: it ends before the interval
\* starts or starts after the interval ends.
C29_SegmentsClearOfSkips ==
    (pc = "c_extracted" /\ padding = 0 /\ delay = 0) =>
        \A i \in 1..Len(speech_segments) :
            \A k \in 1..Len(skip_intervals) :
                \/ speech_segments[i][2] < skip_intervals[k][1]
                \/ speech_segments[i][1] > skip_intervals[k][2]

\* A cue was removed and the segment of the cue left lies between two skip
\* intervals, a millisecond from each.
C29_Witness ==
    /\ pc = "c_extracted"
    /\ padding = 0 /\ delay = 0
    /\ skip_intervals = << <<0, 0>>, <<3, 3>> >>
    /\ Len(loaded) = 2
    /\ Len(subs) = 1
    /\ speech_segments = << <<1, 2>> >>

\* ============================================ Speech Segment Deriver claims
\* The interval a loaded cue stands for: delayed, padded, each end clamped to
\* zero on its own.
PaddedStart(cue) == IF cue.start + delay - padding < 0 THEN 0
                    ELSE cue.start + delay - padding
PaddedEnd(cue) == IF cue.end + delay + padding < 0 THEN 0
                  ELSE cue.end + delay + padding
Survivors == {k \in 1..Len(loaded) : PaddedStart(loaded[k]) < PaddedEnd(loaded[k])}

\* C9: every segment extract_speech_timing_from_subtitles returns has
\* 0 <= start < end; the segments start and end where clamped intervals of
\* cues with end > start after clamping do, and cover each of those; a cue
\* whose clamped interval has end <= start contributes nothing, so when there
\* is no other cue there is no segment.
C9_SegmentsPositive ==
    pc \in {"t_extracted", "t_done"} =>
        /\ \A i \in 1..Len(speech_segments) :
              /\ 0 <= speech_segments[i][1]
              /\ speech_segments[i][1] < speech_segments[i][2]
              /\ \E k \in Survivors : speech_segments[i][1] = PaddedStart(loaded[k])
              /\ \E k \in Survivors : speech_segments[i][2] = PaddedEnd(loaded[k])
        /\ \A k \in Survivors :
              \E i \in 1..Len(speech_segments) :
                 /\ speech_segments[i][1] <= PaddedStart(loaded[k])
                 /\ PaddedEnd(loaded[k]) <= speech_segments[i][2]
        /\ (Survivors = {} => speech_segments = <<>>)

\* With a negative delay, one cue was shifted wholly below zero and gave no
\* segment, another was cut at zero and gave the only segment.
C9_Witness ==
    /\ pc = "t_extracted"
    /\ delay < 0
    /\ Len(loaded) = 2
    /\ \E k \in 1..2 : loaded[k].start < loaded[k].end /\ loaded[k].end + delay + padding <= 0
    /\ \E k \in 1..2 : loaded[k].start + delay - padding < 0 /\ k \in Survivors
    /\ Len(speech_segments) = 1
    /\ speech_segments[1][1] = 0

\* The cues with d milliseconds added to every start and end.
Advanced(events, d) ==
    [k \in 1..Len(events) |->
        [start |-> events[k].start + d, end |-> events[k].end + d,
         text |-> events[k].text]]

\* C10: the segments and the re-timed cues obtained with delay d are those
\* obtained with delay 0 from the same cues with d added to every start and
\* end.
C10_DelayEquivalence ==
    LET moved == Advanced(loaded, delay)
        segs0 == SpeechTimingOf(SubsAfterDelay(moved, 0), padding)
    IN /\ pc \in {"t_extracted", "t_done"} => speech_segments = segs0
       /\ pc = "t_done" =>
             condensed_subs = CondensedOf(SubsAfterDelay(moved, 0), segs0).batch

\* A run with a negative delay has re-timed two cues into two segments.
C10_Witness ==
    /\ pc = "t_done"
    /\ delay < 0
    /\ Len(speech_segments) = 2
    /\ Len(condensed_subs) = 2
    /\ condensed_subs[2].start > 0

\* The list events without its k-th element.
Without(events, k) ==
    [i \in 1..(Len(events) - 1) |-> IF i < k THEN events[i] ELSE events[i + 1]]

\* The loaded cues with start > end.
Reversed == {k \in 1..Len(loaded) : loaded[k].start > loaded[k].end}

\* The segments the Deriver returns when the k-th loaded cue is left out.
SegmentsWithout(k) ==
    SpeechTimingOf(SubsAfterDelay(Without(loaded, k), delay), padding)

\* C11 as stated: whatever the padding and the delay, a cue with start > end
\* contributes no interval: the segments returned are those returned for the
\* list without that cue.
C11_ReversedCueDropped ==
    pc \in {"t_extracted", "t_done"} =>
        \A k \in Reversed : speech_segments = SegmentsWithout(k)

\* C11 amended: a cue with start > end contributes no interval when, after
\* delay and padding, its clamped end is not greater than its clamped start,
\* which is always so with padding 0; with a padding of more than half of
\* start - end and a padded end above zero it contributes the interval from
\* its clamped padded start to its padded end, which some segment then covers.
C11_ReversedCue ==
    pc \in {"t_extracted", "t_done"} =>
        \A k \in Reversed :
            /\ (padding = 0 => speech_segments = SegmentsWithout(k))
            /\ IF PaddedEnd(loaded[k]) <= PaddedStart(loaded[k])
               THEN speech_segments = SegmentsWithout(k)
               ELSE /\ 2 * padding > loaded[k].start - loaded[k].end
                    /\ \E i \in 1..Len(speech_segments) :
                          /\ speech_segments[i][1] <= PaddedStart(loaded[k])
                          /\ PaddedEnd(loaded[k]) <= speech_segments[i][2]

\* With a padding above zero, of two cues with start > end the first was
\* dropped and the second gave the only segment.
C11_Witness ==
    /\ pc = "t_extracted"
    /\ padding > 0
    /\ Reversed = {1, 2}
    /\ PaddedEnd(loaded[1]) <= PaddedStart(loaded[1])
    /\ speech_segments = << <<PaddedStart(loaded[2]), PaddedEnd(loaded[2])>> >>

\* ====================================================== Subtitle Re-timer claims
\* The bounds of the i-th segment truncated to integer milliseconds.
SegmentStartMs(i) == IntMs(speech_segments[i][1])
SegmentEndMs(i) == IntMs(speech_segments[i][2])
SegmentDurationMs(i) == SegmentEndMs(i) - SegmentStartMs(i)

\* The sum of the durations of the segments before the i-th.
RECURSIVE DurationBefore(_)
DurationBefore(i) ==
    IF i <= 1 THEN 0 ELSE DurationBefore(i - 1) + SegmentDurationMs(i - 1)

\* The cues, by index, whose start lies in the window of the i-th segment.
InWindow(i) ==
    {k \in 1..Len(subs) :
        SegmentStartMs(i) <= subs[k].start /\ subs[k].start < SegmentEndMs(i)}

\* The number of cues in the windows of the segments before the i-th.
RECURSIVE EmittedBefore(_)
EmittedBefore(i) ==
    IF i <= 1 THEN 0 ELSE EmittedBefore(i - 1) + Cardinality(InWindow(i - 1))

\* A cue that overlaps the window of a segment and starts before it.
StartsBeforeItsWindow(k) ==
    \E i \in 1..Len(speech_segments) :
        /\ subs[k].start < SegmentStartMs(i)
        /\ subs[k].end > SegmentStartMs(i)

\* C13: after create_condensed_subtitles the cue list is in ascending order of
\* start and the re-timed cues are, segment after segment, one for each cue
\* with segment_start_ms <= cue.start < segment_end_ms and for no other, in
\* the order of the cue list, with start = cue.start - segment_start_ms +
\* cumulative, end = the smaller of cue.end - segment_start_ms + cumulative and
\* segment_duration_ms + cumulative, and the text of the cue; cumulative is
\* the sum of the durations of the earlier segments.
C13_RetimedCues ==
    pc = "t_done" =>
        /\ \A k \in 1..(Len(subs) - 1) : subs[k].start <= subs[k + 1].start
        /\ Len(condensed_subs) = EmittedBefore(Len(speech_segments) + 1)
        /\ \A i \in 1..Len(speech_segments) :
              \A r \in 1..Cardinality(InWindow(i)) :
                 LET cue == subs[Nth(InWindow(i), r)]
                     new == condensed_subs[EmittedBefore(i) + r]
                     rebased == cue.end - SegmentStartMs(i) + DurationBefore(i)
                     limit == SegmentDurationMs(i) + DurationBefore(i)
                 IN /\ new.start =
                          cue.start - SegmentStartMs(i) + DurationBefore(i)
                    /\ new.end = IF rebased <= limit THEN rebased ELSE limit
                    /\ new.text = cue.text

\* Two segments were re-timed: a cue that starts before the first segment and
\* reaches into it was not emitted, and a cue starting exactly at the start of
\* the second segment was emitted at the cumulative duration.
C13_Witness ==
    /\ pc = "t_done"
    /\ Len(speech_segments) = 2
    /\ Len(subs) = 2
    /\ StartsBeforeItsWindow(1)
    /\ subs[2].start = SegmentStartMs(2)
    /\ Len(condensed_subs) = 1
    /\ condensed_subs[1].start = SegmentDurationMs(1)
    /\ condensed_subs[1].start > 0

\* C14: the cumulative duration of create_condensed_subtitles starts at 0, is
\* after the k-th segment the sum of the integer-millisecond durations of the
\* first k segments, whether or not a cue was found in them, never decreases,
\* and is at the end the sum of the durations of all segments.
C14_CumulativeDuration ==
    pc = "t_done" =>
        /\ Len(cumulative_history) = Len(speech_segments) + 1
        /\ cumulative_history[1] = 0
        /\ \A k \in 1..Len(speech_segments) :
              /\ cumulative_history[k + 1] = DurationBefore(k + 1)
              /\ cumulative_history[k + 1] >= cumulative_history[k]
        /\ cumulative_duration = DurationBefore(Len(speech_segments) + 1)
        /\ cumulative_duration = cumulative_history[Len(cumulative_history)]

\* The first of two segments had no cue in its window and the second had one:
\* the cumulative duration went up by the duration of each.
C14_Witness ==
    /\ pc = "t_done"
    /\ Len(speech_segments) = 2
    /\ InWindow(1) = {}
    /\ InWindow(2) # {}
    /\ cumulative_history =
           <<0, SegmentDurationMs(1), SegmentDurationMs(1) + SegmentDurationMs(2)>>
    /\ SegmentDurationMs(1) > 0

\* The total duration of the condensed timeline, in milliseconds.
TotalDurationMs == DurationBefore(Len(speech_segments) + 1)

\* C15: whatever the cues (start <= end or not), the padding and the delay,
\* every re-timed cue has its start and its end between 0 and the total
\* duration of the condensed timeline; none is negative.
C15_WithinTimeline ==
    pc = "t_done" =>
        \A n \in 1..Len(condensed_subs) :
            /\ 0 <= condensed_subs[n].start
            /\ condensed_subs[n].start <= TotalDurationMs
            /\ 0 <= condensed_subs[n].end
            /\ condensed_subs[n].end <= TotalDurationMs

\* C16: for the segments of the Deriver and the cues in any order, the
\* re-timed cues come out in non-decreasing order of start, and each of them
\* ends no later than the region of its segment on the condensed timeline
\* does: that region starts at the cumulative duration before the segment and
\* ends at cumulative + segment_duration_ms.
C16_AscendingAndBounded ==
    pc = "t_done" =>
        /\ \A n \in 1..(Len(condensed_subs) - 1) :
              condensed_subs[n].start <= condensed_subs[n + 1].start
        /\ \A n \in 1..Len(condensed_subs) :
              \E i \in 1..Len(speech_segments) :
                 /\ DurationBefore(i) <= condensed_subs[n].start
                 /\ condensed_subs[n].start < DurationBefore(i + 1)
                 /\ condensed_subs[n].end <= DurationBefore(i + 1)

\* Cues loaded in descending order of start fell into two segments and were
\* re-timed in ascending order, the first one ending exactly where the region
\* of its segment ends.
C16_Witness ==
    /\ pc = "t_done"
    /\ Len(loaded) = 2
    /\ loaded[1].start > loaded[2].start
    /\ Len(speech_segments) = 2
    /\ Len(condensed_subs) = 2
    /\ condensed_subs[1].start < condensed_subs[2].start
    /\ condensed_subs[1].end = DurationBefore(2)

\* The start of the k-th loaded cue once the delay is applied.
DelayedStart(k) == loaded[k].start + delay

\* C17: every cue whose padded, clamped interval survives in the Deriver has
\* its delayed start inside the window of the segment that covers that
\* interval, segment_start_ms <= cue.start < segment_end_ms, and a re-timed
\* cue with its text is emitted.
C17_StartWithinSegment ==
    pc = "t_done" =>
        \A k \in Survivors :
            /\ \E i \in 1..Len(speech_segments) :
                  /\ speech_segments[i][1] <= PaddedStart(loaded[k])
                  /\ PaddedEnd(loaded[k]) <= speech_segments[i][2]
                  /\ SegmentStartMs(i) <= DelayedStart(k)
                  /\ DelayedStart(k) < SegmentEndMs(i)
            /\ \E n \in 1..Len(condensed_subs) :
                  condensed_subs[n].text = loaded[k].text

\* The cues of the end-to-end scenario.
ScenarioCues ==
    << [start |-> 1000, end |-> 2000, text |-> <<"A">>],
       [start |-> 3000, end |-> 4000, text |-> <<"B">>] >>

\* C18: for the cues (1000, 2000, "A") and (3000, 4000, "B"), delay 0 and
\* padding 0.5 s the Deriver returns the one segment (0.5, 4.5) and the
\* Re-timer exactly the cues (500, 1500, "A") and (2500, 3500, "B").
C18_EndToEnd ==
    (loaded = ScenarioCues /\ delay = 0 /\ padding = 500) =>
        /\ pc \in {"t_extracted", "t_done"} =>
              speech_segments = << <<500, 4500>> >>
        /\ pc = "t_done" =>
              condensed_subs =
                  << [start |-> 500, end |-> 1500, text |-> <<"A">>],
                     [start |-> 2500, end |-> 3500, text |-> <<"B">>] >>

\* The scenario has been run to its end.
C18_Witness ==
    /\ pc = "t_done"
    /\ loaded = ScenarioCues
    /\ delay = 0
    /\ padding = 500
    /\ cumulative_duration = 4000
    /\ Len(condensed_subs) = 2

\* How often the cue occurs in the list events.
Occurrences(events, cue) == Cardinality({j \in 1..Len(events) : events[j] = cue})

C27_EmittedAtMostOnce ==
    pc = "t_done" =>
        /\ Len(condensed_subs) <= Len(subs)
        /\ \A i, j \in 1..Len(speech_segments) :
              i # j => InWindow(i) \cap InWindow(j) = {}

\* Two segments one millisecond apart, each with the start of one cue in its
\* window: both cues were emitted, once each.
C27_Witness ==
    /\ pc = "t_done"
    /\ Len(speech_segments) = 2
    /\ SegmentStartMs(2) = SegmentEndMs(1) + 1
    /\ Cardinality(InWindow(1)) = 1
    /\ Cardinality(InWindow(2)) = 1
    /\ Len(condensed_subs) = 2

\* ======================================================== process_file claims
\* C12: extract_speech_timing_from_subtitles signals that nothing is left by
\* returning the empty list, no exception being raised by it; process_file
\* then raises FileProcessingError "No valid segments found" and stops with
\* no re-timed cue computed and no condensed subtitle, audio or video output
\* created; a file whose segment list is not empty is not given up here.
C12_NoValidSegments ==
    /\ pc = "f_extracted" => error = ""
    /\ pc = "f_failed" =>
          /\ speech_segments = <<>>
          /\ error = "No valid segments found"
          /\ outputs = {}
          /\ condensed_subs = <<>>
          /\ steps[Len(steps)] = "if not speech_segments"
    /\ pc \in {"f_checked", "f_condensed", "f_done"} =>
          /\ speech_segments # <<>>
          /\ error = ""

\* A file with every output enabled whose cues passed the filters and were
\* then moved below zero by a negative delay has been given up.
C12_Witness ==
    /\ pc = "f_failed"
    /\ enabled = Outputs
    /\ subs # <<>>
    /\ delay < 0
    /\ \E k \in 1..Len(subs) : subs[k].start < subs[k].end
                               /\ subs[k].end + padding <= 0

\* The place of a step in the order of process_file.
PlaceOf(step) == CHOOSE n \in 1..Len(StepOrder) : StepOrder[n] = step

\* The loaded cues that neither filter removes, in their order.
Filtered ==
    LET Kept == {k \in 1..Len(loaded) :
                    /\ ~\E n \in 1..Len(skip_patterns) :
                           StartsWithMatch(skip_patterns[n], PlainOf(loaded[k].text))
                    /\ ~\E n \in 1..Len(skip_intervals) :
                           /\ loaded[k].end >= skip_intervals[n][1]
                           /\ loaded[k].start <= skip_intervals[n][2]}
    IN [i \in 1..Cardinality(Kept) |-> loaded[Nth(Kept, i)]]

\* C20: the steps process_file runs are run in the order pattern filter,
\* chapter filter, Deriver, emptiness check, Re-timer, media extraction, the
\* Deriver and the check always among them; the cue list the Re-timer is
\* given is the list of the loaded cues that passed both filters, each with
\* the delay added once to its start and its end and no padding in either.
C20_StepOrder ==
    /\ \A i, j \in 1..Len(steps) :
          i < j => PlaceOf(steps[i]) < PlaceOf(steps[j])
    /\ pc \in {"f_checked", "f_condensed", "f_done"} =>
          /\ \E i \in 1..Len(steps) :
                steps[i] = "extract_speech_timing_from_subtitles"
          /\ \E i \in 1..Len(steps) : steps[i] = "if not speech_segments"
    /\ pc = "f_checked" => subs = Advanced(Filtered, delay)

\* All six steps have run on a file that lost a cue to a filter, with a delay
\* and a padding other than zero.
C20_Witness ==
    /\ pc = "f_done"
    /\ steps = StepOrder
    /\ delay # 0
    /\ padding > 0
    /\ Len(Filtered) = 1
    /\ Len(loaded) = 2
    /\ Len(condensed_subs) = 1

\* ====================================================== convert_to_lrc claims
\* Reading a line of the LRC file back.
IndexOf(line, c) ==
    CHOOSE i \in 1..Len(line) :
        line[i] = c /\ \A j \in 1..(i - 1) : line[j] # c

DigitValue(c) == CHOOSE d \in 0..9 : Digit(d) = c
IsDigit(c) == \E d \in 0..9 : Digit(d) = c

RECURSIVE ValueOf(_)
ValueOf(digits) ==
    IF digits = <<>> THEN 0
    ELSE 10 * ValueOf(SubSeq(digits, 1, Len(digits) - 1))
         + DigitValue(digits[Len(digits)])

\* The line written for the k-th re-timed cue.
LrcLine(k) == lrc_lines[Len(LrcHeader) + k]
MinutesField(line) == SubSeq(line, 2, IndexOf(line, ":") - 1)
SecondsField(line) ==
    SubSeq(line, IndexOf(line, ":") + 1, IndexOf(line, "]") - 1)
TextField(line) == SubSeq(line, IndexOf(line, "]") + 1, Len(line))

\* The seconds field in hundredths of a second: ss.cc without its point.
SecondsHundredths(line) ==
    LET f == SecondsField(line)
    IN ValueOf(<<f[1], f[2], f[4], f[5]>>)

\* [mm:ss.cc]text with one minutes field, one seconds field and no hour field.
TimestampedLine(line) ==
    /\ Len(line) >= 10
    /\ line[1] = "["
    /\ \E i \in 1..Len(line) : line[i] = ":"
    /\ \E i \in 1..Len(line) : line[i] = "]"
    /\ LET m == MinutesField(line)
           f == SecondsField(line)
       IN /\ Len(m) >= 2
          /\ \A i \in 1..Len(m) : IsDigit(m[i])
          /\ Len(f) = 5
          /\ f[3] = "."
          /\ \A i \in {1, 2, 4, 5} : IsDigit(f[i])

\* C21 (as the claim states it): each re-timed cue becomes one line
\* [mm:ss.cc]text in cue order, mm being the integer division of the start in
\* seconds by 60, and the minutes field stays a two-digit value below 60.
C21_MinutesBelowSixty ==
    pc = "l_done" =>
        /\ Len(lrc_lines) = Len(LrcHeader) + Len(condensed_subs)
        /\ \A k \in 1..Len(condensed_subs) :
              /\ TimestampedLine(LrcLine(k))
              /\ Len(MinutesField(LrcLine(k))) = 2
              /\ ValueOf(MinutesField(LrcLine(k))) < 60

\* C21 (amended): each re-timed cue becomes one line [mm:ss.cc]text in cue
\* order, after the metadata lines; there is no hour field, and mm is the
\* integer division of the start in seconds by 60, written with all its
\* digits, two at least, and neither wrapped nor truncated: it is 60 or more
\* for a cue that starts at 60 minutes or later, 100 at 100 minutes.
C21_LrcLines ==
    pc = "l_done" =>
        /\ Len(lrc_lines) = Len(LrcHeader) + Len(condensed_subs)
        /\ \A k \in 1..Len(condensed_subs) :
              LET line == LrcLine(k)
                  seconds == condensed_subs[k].start \div 1000
              IN /\ TimestampedLine(line)
                 /\ ValueOf(MinutesField(line)) = seconds \div 60
                 /\ Len(MinutesField(line)) = (IF seconds < 6000 THEN 2 ELSE 3)
                 /\ TextField(line) = condensed_subs[k].text

\* A cue starting at 100 minutes is written before one of the first minute.
C21_Witness ==
    /\ pc = "l_done"
    /\ Len(condensed_subs) >= 2
    /\ condensed_subs[1].start >= 6000000
    /\ condensed_subs[2].start < 60000
    /\ ValueOf(MinutesField(LrcLine(1))) >= 100
    /\ ValueOf(MinutesField(LrcLine(2))) = 0

\* C28: the seconds field of every line is between 00.00 and 59.99; rounding
\* to hundredths never writes 60.00.
C28_SecondsBelowSixty ==
    pc = "l_done" =>
        \A k \in 1..Len(condensed_subs) :
            /\ TimestampedLine(LrcLine(k))
            /\ SecondsHundredths(LrcLine(k)) <= 5999

\* ======================================= get_skipped_chapter_intervals claims
\* The chapters whose title equals a configured entry when the case of both is
\* ignored.
EqualIgnoringCase(a, b) == Lower(a) = Lower(b)

ToSkip(ch) ==
    skip_chapters.set
    /\ \E k \in 1..Len(skip_chapters.titles) :
           EqualIgnoringCase(ch.title, skip_chapters.titles[k])

\* C22: the intervals returned are the (start, end) of exactly the chapters
\* whose title equals a configured entry, whatever the casing of the title and
\* of the entry, in chapter order; a title that only contains an entry is not
\* matched, and nothing is returned when skip_chapters is empty or unset.
C22_CaseInsensitiveMatch ==
    pc = "k_done" =>
        LET expected == SelectSeq(chapters, ToSkip)
        IN /\ Len(skip_intervals) = Len(expected)
           /\ \A k \in 1..Len(expected) :
                 skip_intervals[k] = <<Float(expected[k].start_time),
                                       Float(expected[k].end_time)>>

\* C25: when a configured line_skip_patterns entry is not a valid regular
\* expression, process_file ends with the error raised while compiling the
\* patterns: no filter and no Deriver has run, the cues are as loaded, none
\* removed and none shifted, and no output exists; process_file never goes on
\* with the pattern left out.
C25_InvalidPattern ==
    (\E k \in 1..Len(line_skip_patterns) : ~ValidRegex(line_skip_patterns[k]))
        => /\ pc \in {"f_loaded", "f_not_compiled"}
           /\ pc = "f_not_compiled" => error = "re.error"
           /\ subs = loaded
           /\ steps = <<>>
           /\ skip_patterns = <<>>
           /\ speech_segments = <<>>
           /\ condensed_subs = <<>>
           /\ outputs = {}

\* Every output is enabled and the valid pattern configured before the invalid
\* one matches a loaded cue, which is still there after the failure.
C25_Witness ==
    /\ pc = "f_not_compiled"
    /\ error = "re.error"
    /\ enabled = Outputs
    /\ Len(line_skip_patterns) = 2
    /\ ValidRegex(line_skip_patterns[1])
    /\ \E k \in 1..Len(subs) :
           StartsWithMatch(line_skip_patterns[1], PlainOf(subs[k].text))

\* ================================================================ main claims
\* The files attempted so far for which process_file raised.
FailedFiles == {i \in 1..Len(results) : results[i].error # ""}

\* C23: no state leaks between files.  Whatever was processed before it, a
\* file gives the segments and the re-timed cues it gives as the first file
\* of a run, where nothing was processed before: two turns of one run on the
\* same file, with the same configuration and arguments, end alike; and the
\* counter of every re-timing pass starts at 0.
C23_NoLeakBetweenFiles ==
    /\ \A i, j \in 1..Len(results) :
          input_files[i] = input_files[j] =>
              /\ results[i].segments = results[j].segments
              /\ results[i].cues = results[j].cues
              /\ results[i].error = results[j].error
    /\ \A i \in 1..Len(results) :
          results[i].error = "" => results[i].counter[1] = 0

\* A file was processed first and again after another file that left cues,
\* segments and a counter above 0 behind.
C23_Witness ==
    /\ pc = "x_exited"
    /\ Len(results) = 3
    /\ input_files[1] = input_files[3]
    /\ input_files[2] # input_files[1]
    /\ results[1].cues # <<>>
    /\ results[2].cues # <<>>
    /\ results[2].counter[Len(results[2].counter)] > 0
    /\ results[3].cues = results[1].cues

\* C24: main attempts every input file, in order, whatever exception a file
\* before it has raised; when main ends, the files that succeeded and the
\* files that failed are together all the input files, and the status is 0
\* when no file failed, 2 when every file failed and 1 otherwise.
C24_EveryFileAttempted ==
    /\ Len(results) <= Len(input_files)
    /\ \A i \in 1..Len(results) :
          /\ results[i].file = input_files[i]
          /\ input_files[i].fault # "" => results[i].error = input_files[i].fault
    /\ successful_files = Len(results) - Cardinality(FailedFiles)
    /\ pc = "x_exited" =>
          /\ Len(results) = Len(input_files)
          /\ successful_files + Cardinality(FailedFiles) = Len(input_files)
          /\ exit_status = (IF FailedFiles = {} THEN 0
                            ELSE IF Cardinality(FailedFiles) = Len(input_files)
                                 THEN 2 ELSE 1)

\* Three files, the first raising FFmpegError, the second FileProcessingError
\* for want of segments, the third done: the status is 1.
C24_Witness ==
    /\ pc = "x_exited"
    /\ Len(input_files) = 3
    /\ results[1].error = "FFmpegError"
    /\ input_files[2].fault = ""
    /\ results[2].error = "FileProcessingError"
    /\ results[3].error = ""
    /\ exit_status = 1

\* =========================================================== safe_move claims
\* What is done about an existing file: the setting, or the answer of the
\* user when the setting is to ask, Rename being the answer to an empty line.
Policy(typed) ==
    IF if_file_exists # "ask" THEN if_file_exists
    ELSE IF typed = "o" THEN "overwrite"
    ELSE IF typed = "s" THEN "skip"
    ELSE "rename"

\* C26: a call of safe_move replaces the content of an existing destination
\* only under the policy overwrite; under skip it returns "" and leaves source
\* and destination as they are; under rename it leaves the destination as it
\* is, moves the source to another path, one with a timestamp suffix, and
\* returns that path; when the destination does not exist it moves the source
\* there and returns the destination.
C26_SafeMove ==
    [][calls' = calls + 1 =>
          LET source == TempPath(calls')
              policy == Policy(user_input')
          IN IF ~Exists(fs, FinalPath)
             THEN /\ returned' = FinalPath
                  /\ ~Exists(fs', source)
                  /\ fs'[FinalPath] = fs[source]
             ELSE /\ Exists(fs', FinalPath)
                  /\ fs'[FinalPath] # fs[FinalPath] => policy = "overwrite"
                  /\ policy = "overwrite" =>
                        /\ returned' = FinalPath
                        /\ fs'[FinalPath] = fs[source]
                        /\ ~Exists(fs', source)
                  /\ policy = "skip" =>
                        /\ returned' = EmptyString
                        /\ fs' = fs
                  /\ policy = "rename" =>
                        /\ returned' # FinalPath
                        /\ returned'.kind = "renamed"
                        /\ fs'[returned'] = fs[source]
                        /\ ~Exists(fs', source)]_vars

\* Asked twice about the existing destination, the user had the first file
\* renamed and then skipped the second: the destination has its old content,
\* the renamed file that of the first source, the second source is still
\* there.
C26_Witness ==
    /\ if_file_exists = "ask"
    /\ calls = 2
    /\ user_input = "s"
    /\ returned = EmptyString
    /\ Exists(fs, FinalPath) /\ fs[FinalPath] = 0
    /\ \E t \in 0..MaxClock :
           Exists(fs, RenamedPath(t)) /\ fs[RenamedPath(t)] = 1
    /\ Exists(fs, TempPath(2))

\* C30: under the policy rename no call of safe_move, whatever the calls
\* before it and whenever they were made, overwrites a file: the path the
\* source is moved to does not exist just before the move.
C30_RenameNeverOverwrites ==
    [][(calls' = calls + 1 /\ if_file_exists = "rename"
            /\ returned' # EmptyString)
          => ~Exists(fs, returned')]_vars

====
